---- MODULE Spec2Model ----
(***************************************************************************)
(* Model of the preview pipeline of src/app.py: the tag scanner and the    *)
(* manifest build (get_preview_tags, upload_file), preview extraction      *)
(* (extract_preview_data, extract_preview), conversion with the temporary  *)
(* file (convert_image_to_web_format, copy_exif_to_preview), the janitor   *)
(* (clean_old_files) and the display normaliser (parse_exif_for_display).  *)
(*                                                                         *)
(* The external collaborators (exiftool, the image codec, the file system) *)
(* are inputs: each call's outcome is drawn from the outcomes the          *)
(* collaborator can produce.                                               *)
(***************************************************************************)
EXTENDS Integers, Sequences, FiniteSets, TLC

VARIABLES
    pc,                 \* position of the request worker
    fs_source,          \* the uploaded source file exists in UPLOAD_FOLDER
    fs_old,             \* its mtime is older than the janitor's cutoff
    fs_temp,            \* a temporary file of the request is (still) on disk
    raw_exif,           \* the metadata record of the request
    idx,                \* number of keys get_preview_tags has gone through
    valid_preview_tags, \* the dict get_preview_tags builds, in insertion order
    runs,               \* full keys for which extraction was run, in order
    ext,                \* the last extract_preview_data call: arguments, result
    conv,               \* the last convert_image_to_web_format call
    parsed_exif,        \* what parse_exif_for_display gave for the record
    request,            \* arguments of the request in progress
    response            \* what the handler answered

vars == <<pc, fs_source, fs_old, fs_temp, raw_exif, idx, valid_preview_tags,
          runs, ext, conv, parsed_exif, request, response>>

None == "None"

Last(s) == s[Len(s)]

(***************************************************************************)
(* Binary data, as the pipeline sees it: a length and the image the codec  *)
(* finds in it.  decode: "ok", "unidentified" (UnidentifiedImageError) or  *)
(* "bomb" (Image.DecompressionBombError, not an IOError).                  *)
(***************************************************************************)
Blob(n, decode, mode, format) ==
    [len |-> n, decode |-> decode, mode |-> mode, format |-> format]

NoData == Blob(0, "none", "none", "none")

Jpeg(n) == Blob(n, "ok", "RGB", "JPEG")

(***************************************************************************)
(* extract_preview_data                                                    *)
(***************************************************************************)
\* Bound: the lengths exiftool -b returns are drawn around the threshold.
LenSpread == 1

\* len(preview_data) > 100
MinPreviewBytes == 100

priority_tags_reversed(tag_name) ==
    IF tag_name = None THEN <<"PreviewImage", "JpgFromRaw">> ELSE <<tag_name>>

\* priority_tags = ['JpgFromRaw', 'PreviewImage'] if tag_name is None else [tag_name]
priority_tags(tag_name) ==
    IF tag_name = None THEN <<"JpgFromRaw", "PreviewImage">> ELSE <<tag_name>>

\* if preview_data and len(preview_data) > 100
preview_valid(data) == data.len # 0 /\ data.len > MinPreviewBytes

\* The for loop of extract_preview_data over the remaining tags.  tool[tag] is
\* what `exiftool -b -<tag> filepath` does: [exit, stdout]; a non-zero exit is
\* CalledProcessError under check=True, which the loop logs and continues from.
RECURSIVE try_tags(_, _, _)
try_tags(tool, tags, calls) ==
    IF tags = <<>>
    THEN [ok |-> FALSE, data |-> NoData, used_tag |-> None, calls |-> calls]
    ELSE LET tag == Head(tags)
             r   == tool[tag]
         IN  IF r.exit = 0 /\ preview_valid(r.stdout)
             THEN [ok |-> TRUE, data |-> r.stdout, used_tag |-> tag,
                   calls |-> Append(calls, tag)]
             ELSE try_tags(tool, Tail(tags), Append(calls, tag))

extract_preview_data(tool, tag_name) == try_tags(tool, priority_tags(tag_name), <<>>)

\* What one exiftool -b call can do: fail, or print data of some length.
ToolLens == {0} \cup ((MinPreviewBytes - LenSpread) .. (MinPreviewBytes + LenSpread))

ToolOutcomes ==
    {[exit |-> 1, stdout |-> NoData]} \cup
    {[exit |-> 0, stdout |-> Jpeg(n)] : n \in ToolLens}

PreviewTagNames == {"JpgFromRaw", "PreviewImage", "ThumbnailImage"}

(***************************************************************************)
(* convert_image_to_web_format and copy_exif_to_preview                    *)
(***************************************************************************)
\* Colour modes of a decoded image (PIL's img.mode).
Modes == {"RGB", "RGBA", "P", "L", "LA", "1", "CMYK"}

\* Modes with an alpha channel, and single-channel or palette-indexed ones.
AlphaModes == {"RGBA", "LA"}
SingleChannelModes == {"P", "L", "1"}

\* What img.save(..., format='JPEG') writes for a mode: PIL's JPEG encoder
\* takes 1, L, RGB, RGBX, CMYK and YCbCr and raises OSError("cannot write mode
\* ... as JPEG") for every other mode; 1 and L are written as greyscale.
JpegWritable == {"1", "L", "RGB", "CMYK"}

JpegModeOf(mode) == IF mode = "1" THEN "L" ELSE mode

\* get_image_original_format: every exception gives "UNKNOWN".
get_image_original_format(binary_data) ==
    IF binary_data.decode = "ok" THEN binary_data.format ELSE "UNKNOWN"

\* if img.mode in ('RGBA', 'P', 'L'): img = img.convert('RGB')
normalize_mode(mode) == IF mode \in {"RGBA", "P", "L"} THEN "RGB" ELSE mode

copy_exif_propagates(src_exists, outcome) ==
    IF src_exists /\ outcome = "ok" THEN "copied" ELSE "raised"

\* copy_exif_to_preview: exiftool -tagsfromfile source ... target.  outcome is
\* what the subprocess call does: "ok", "nonzero" (CalledProcessError) or
\* "exception" (any other Exception); exiftool exits non-zero when the source
\* file is missing.  Both except clauses return False, nothing propagates.
copy_exif_to_preview(src_exists, outcome) ==
    IF src_exists /\ outcome = "ok" THEN "copied" ELSE "not_copied"

finally_cleanup_skipped(temp_exists, remove) ==
    [left |-> temp_exists, raised |-> FALSE]

\* The finally block: if temp_file and os.path.exists(temp_file): os.remove,
\* whose failure is logged.  What is left on disk, and whether the block raises.
finally_cleanup(temp_exists, remove) ==
    [left |-> temp_exists /\ remove # "ok", raised |-> FALSE]

NoBytes == [len |-> 0, mode |-> "none", exif |-> FALSE]

ConvReturnFail(original_format) ==
    [kind |-> "return", ok |-> FALSE, data |-> NoBytes,
     original_format |-> original_format]

ConvReturnOk(data, original_format) ==
    [kind |-> "return", ok |-> TRUE, data |-> data,
     original_format |-> original_format]

ConvRaise(original_format) ==
    [kind |-> "raise", ok |-> FALSE, data |-> NoBytes,
     original_format |-> original_format]

\* The try block (lines 183-205): the outcome and what it leaves on disk.
\* env.save: "ok", "ioerror" or "other" (an exception outside the except
\* tuple); env.partial: a failed save leaves a file; env.copy: see above;
\* env.read: "ok", "empty" or "ioerror"; env.encoded: the encoded length.
convert_try(binary_data, temp_file, src_exists, env) ==
    LET original_format == get_image_original_format(binary_data)
        mode     == normalize_mode(binary_data.mode)
        saved    == mode \in JpegWritable /\ env.save = "ok"
        copied   == IF temp_file /\ saved
                    THEN copy_exif_to_preview(src_exists, env.copy)
                    ELSE "not_copied"
        readable == ~temp_file \/ env.read # "ioerror"
        data     == [len  |-> IF temp_file /\ env.read = "empty" THEN 0
                              ELSE env.encoded,
                     mode |-> JpegModeOf(mode),
                     exif |-> copied = "copied"]
        Out(o, created, tmp) ==
            [outcome |-> o, temp_created |-> created, temp_exists |-> tmp,
             saved |-> binary_data.decode = "ok" /\ saved, copied |-> copied]
    IN  CASE binary_data.decode = "unidentified" ->
               Out(ConvReturnFail(original_format), FALSE, FALSE)
          [] binary_data.decode # "ok" ->
               Out(ConvRaise(original_format), FALSE, FALSE)
          [] mode \notin JpegWritable ->
               Out(ConvReturnFail(original_format), temp_file /\ env.partial,
                   temp_file /\ env.partial)
          [] env.save = "other" ->
               Out(ConvRaise(original_format), temp_file /\ env.partial,
                   temp_file /\ env.partial)
          [] ~saved ->
               Out(ConvReturnFail(original_format), temp_file /\ env.partial,
                   temp_file /\ env.partial)
          [] copied = "raised" ->
               Out(ConvRaise(original_format), TRUE, TRUE)
          [] ~readable ->
               Out(ConvReturnFail(original_format), TRUE, TRUE)
          [] OTHER ->
               Out(ConvReturnOk(data, original_format), temp_file, temp_file)

\* convert_image_to_web_format(binary_data, 'JPEG', temp_file_prefix): the try
\* block, then the finally block.  temp_file says temp_file_prefix is set.
convert_image_to_web_format(binary_data, temp_file, src_exists, env) ==
    LET t == convert_try(binary_data, temp_file, src_exists, env)
        f == finally_cleanup(t.temp_exists, env.remove)
    IN  [outcome      |-> IF f.raised THEN ConvRaise(t.outcome.original_format)
                          ELSE t.outcome,
         temp_created |-> t.temp_created,
         temp_left    |-> f.left,
         saved        |-> t.saved,
         copied       |-> t.copied]

ConvEnvs(encoded) ==
    [save : {"ok", "ioerror", "other"}, partial : BOOLEAN,
     copy : {"ok", "nonzero", "exception"}, read : {"ok", "empty", "ioerror"},
     remove : {"ok", "oserror"}, encoded : encoded]

(***************************************************************************)
(* Metadata values and the tag scanner of get_preview_tags                 *)
(***************************************************************************)
\* A string is kept as the list of tokens that split(" ") gives; a token is a
\* list of atoms, each a decimal digit character or a chunk of other text.
DigitChars == <<"0", "1", "2", "3", "4", "5", "6", "7", "8", "9">>

IsDigit(a) == \E i \in 1..10 : DigitChars[i] = a

DigitVal(a) == (CHOOSE i \in 1..10 : DigitChars[i] = a) - 1

\* How exiftool (and Python's str) print a non-negative number.
RECURSIVE ToDigits(_)
ToDigits(n) ==
    IF n < 10 THEN <<DigitChars[n + 1]>>
    ELSE Append(ToDigits(n \div 10), DigitChars[(n % 10) + 1])

StrVal(toks) == [type |-> "str", toks |-> toks, n |-> 0]
NumVal(n) == [type |-> "num", toks |-> <<>>, n |-> n]

\* str(value)
Str(v) == IF v.type = "num" THEN <<ToDigits(v.n)>> ELSE v.toks

\* int(token): ValueError unless the token is a non-empty run of digits.
RECURSIVE DigitsValue(_)
DigitsValue(tok) ==
    IF tok = <<>> THEN 0
    ELSE 10 * DigitsValue(SubSeq(tok, 1, Len(tok) - 1)) + DigitVal(Last(tok))

ParseInt(tok) ==
    IF tok # <<>> /\ \A i \in 1..Len(tok) : IsDigit(tok[i])
    THEN [ok |-> TRUE, n |-> DigitsValue(tok)]
    ELSE [ok |-> FALSE, n |-> 0]

\* "(Binary data" in tag_value
HasBinaryMarker(toks) ==
    \E i \in 1..(Len(toks) - 1) :
        /\ toks[i] # <<>> /\ Last(toks[i]) = "(Binary"
        /\ toks[i + 1] # <<>> /\ Head(toks[i + 1]) = "data"

\* 10240 <= size_bytes
MinPreviewSize == 10240

\* size_bytes <= 20 * 1024 * 1024
MaxPreviewSize == 20 * 1024 * 1024

size_in_window_no_upper(size_bytes) == MinPreviewSize <= size_bytes

\* 10240 <= size_bytes <= 20 * 1024 * 1024
size_in_window(size_bytes) ==
    MinPreviewSize <= size_bytes /\ size_bytes <= MaxPreviewSize

\* Lines 222-234: whether the key goes on to extraction, and its size_bytes.
\* int(tag_value.split(" ")[2]): IndexError with fewer than three tokens,
\* ValueError when the third is no number; both skip the key.
scan_value(value) ==
    LET toks == Str(value)
        size == IF Len(toks) >= 3 THEN ParseInt(toks[3]) ELSE [ok |-> FALSE, n |-> 0]
    IN  IF HasBinaryMarker(toks) /\ size.ok /\ size_in_window(size.n)
        THEN [pass |-> TRUE, size_bytes |-> size.n]
        ELSE [pass |-> FALSE, size_bytes |-> 0]

\* tag_name = full_key.split(":")[-1] if ":" in full_key else full_key; a full
\* key is kept as the list of its parts between the ':'.
tag_name_of(full_key) == Last(full_key)

(***************************************************************************)
(* parse_exif_for_display                                                  *)
(***************************************************************************)
NoneVal == [type |-> "none", toks |-> <<>>, n |-> 0]

\* The sentinel for an unknown field.
Unknown == StrVal(<< <<"unknown">> >>)

\* raw_exif.get(key): the value, or None
Get(rec, key) ==
    IF \E i \in 1..Len(rec) : rec[i].full_key = key
    THEN rec[CHOOSE i \in 1..Len(rec) : rec[i].full_key = key].value
    ELSE NoneVal

\* Python's truth value: None, 0 and "" are false.
Truthy(v) ==
    CASE v.type = "none" -> FALSE
      [] v.type = "num"  -> v.n # 0
      [] OTHER           -> v.toks # <<>>

\* a or b
Or(a, b) == IF Truthy(a) THEN a ELSE b

\* raw_exif.get(k1) or raw_exif.get(k2) or ... or default
RECURSIVE FirstOf(_, _, _)
FirstOf(rec, keys, default) ==
    IF keys = <<>> THEN default
    ELSE Or(Get(rec, Head(keys)), FirstOf(rec, Tail(keys), default))

\* int(s) for a string: a number only if the string is one run of digits.
IntOfStr(v) ==
    IF Len(v.toks) = 1 THEN ParseInt(v.toks[1]) ELSE [ok |-> FALSE, n |-> 0]

\* Lines 306-311: the unit of the size string, with the byte count it shows.
FormatSize(n) ==
    [type |-> "size",
     toks |-> << <<IF n < 1024 THEN "B" ELSE IF n < 1024 * 1024 THEN "KB" ELSE "MB">> >>,
     n    |-> n]

\* Lines 298-313: file_size.  For a string that int() accepts, the try block
\* only reassigns file_size_bytes: file_size stays unbound.
file_size_of(v) ==
    IF ~Truthy(v) THEN [bound |-> TRUE, value |-> Unknown]
    ELSE IF v.type = "str"
    THEN IF IntOfStr(v).ok
         THEN [bound |-> FALSE, value |-> NoneVal]
         ELSE [bound |-> TRUE, value |-> Unknown]
    ELSE [bound |-> TRUE, value |-> FormatSize(v.n)]

\* Lines 318-320: sensor_size.  Dividing a string by 1000 is a TypeError.
sensor_size_of(w, h) ==
    IF Truthy(w) /\ Truthy(h)
    THEN IF w.type = "str" \/ h.type = "str"
         THEN [raised |-> TRUE, value |-> NoneVal]
         ELSE [raised |-> FALSE,
               value |-> [type |-> "mm", toks |-> <<ToDigits(w.n), ToDigits(h.n)>>, n |-> 0]]
    ELSE [raised |-> FALSE, value |-> Unknown]

UpperAtom(a) ==
    CASE a = "nef" -> "NEF"
      [] a = "cr2" -> "CR2"
      [] a = "dng" -> "DNG"
      [] OTHER     -> a

\* raw_exif.get("File:FileTypeExtension", "unknown").upper(): AttributeError
\* for a value that is no string.
file_format_of(rec) ==
    LET v == Get(rec, <<"File", "FileTypeExtension">>)
    IN  IF v.type = "none" THEN [raised |-> FALSE, value |-> Unknown]
        ELSE IF v.type # "str" THEN [raised |-> TRUE, value |-> NoneVal]
        ELSE [raised |-> FALSE,
              value |-> StrVal([i \in 1..Len(v.toks) |->
                                  [j \in 1..Len(v.toks[i]) |-> UpperAtom(v.toks[i][j])]])]

\* parse_exif_for_display(raw_exif, original_filename)
parse_exif_for_display(rec) ==
    LET size   == file_size_of(Or(Get(rec, <<"System", "FileSize">>),
                                  Get(rec, <<"File", "FileSize">>)))
        width  == FirstOf(rec, << <<"Canon", "SensorWidth">>,
                                  <<"EXIF", "SensorWidth">> >>, NumVal(0))
        height == FirstOf(rec, << <<"Canon", "SensorHeight">>,
                                  <<"EXIF", "SensorHeight">> >>, NumVal(0))
        sensor == sensor_size_of(width, height)
        format == file_format_of(rec)
        Field(tag) == FirstOf(rec, << <<"Canon", tag>>, <<"EXIF", tag>>,
                                      <<"MakerNotes", tag>> >>, Unknown)
    IN  IF ~size.bound \/ sensor.raised \/ format.raised
        THEN [kind |-> "raise", display |-> <<>>]
        ELSE [kind |-> "return",
              display |-> <<[
                fileSize     |-> size.value,
                fileFormat   |-> format.value,
                shootTime    |-> FirstOf(rec, << <<"Composite", "SubSecDateTimeOriginal">>,
                                     <<"EXIF", "DateTimeOriginal">>,
                                     <<"MakerNotes", "DateTimeOriginal">> >>, Unknown),
                cameraModel  |-> FirstOf(rec, << <<"IFD0", "Model">>, <<"EXIF", "Model">>,
                                     <<"MakerNotes", "Model">> >>, Unknown),
                lensModel    |-> FirstOf(rec, << <<"Canon", "LensModel">>,
                                     <<"EXIF", "LensModel">>, <<"MakerNotes", "LensModel">>,
                                     <<"Composite", "LensID">> >>, Unknown),
                sensorSize   |-> sensor.value,
                width        |-> FirstOf(rec, << <<"EXIF", "ImageWidth">>,
                                     <<"MakerNotes", "ImageWidth">> >>, Unknown),
                height       |-> FirstOf(rec, << <<"EXIF", "ImageHeight">>,
                                     <<"MakerNotes", "ImageHeight">> >>, Unknown),
                iso          |-> FirstOf(rec, << <<"Composite", "ISO">>, <<"EXIF", "ISO">>,
                                     <<"MakerNotes", "ISO">> >>, Unknown),
                shutterSpeed |-> FirstOf(rec, << <<"Composite", "ShutterSpeed">>,
                                     <<"EXIF", "ExposureTime">>,
                                     <<"MakerNotes", "ExposureTime">> >>, Unknown),
                aperture     |-> FirstOf(rec, << <<"Composite", "Aperture">>,
                                     <<"EXIF", "FNumber">>,
                                     <<"MakerNotes", "Aperture">> >>, Unknown),
                focalLength  |-> Field("FocalLength"),
                exposureBias |-> FirstOf(rec, << <<"Canon", "ExposureCompensation">>,
                                     <<"EXIF", "ExposureBiasValue">>,
                                     <<"MakerNotes", "ExposureCompensation">> >>, Unknown),
                whiteBalance |-> Field("WhiteBalance")]>>]

(***************************************************************************)
(* Defaults of the variables a specification does not use.                 *)
(***************************************************************************)
InitCommon ==
    /\ pc = "idle"
    /\ fs_source = TRUE
    /\ fs_old = FALSE
    /\ fs_temp = FALSE
    /\ raw_exif = <<>>
    /\ idx = 0
    /\ valid_preview_tags = <<>>
    /\ runs = <<>>
    /\ ext = <<>>
    /\ conv = <<>>
    /\ parsed_exif = <<>>
    /\ request = <<>>
    /\ response = <<>>

(***************************************************************************)
(* SpecPreview: calls of extract_preview_data, with or without a tag hint. *)
(***************************************************************************)
CallExtractPreviewData ==
    /\ pc = "idle"
    /\ \E tag_name \in {None} \cup PreviewTagNames :
      \E tool \in [PreviewTagNames -> ToolOutcomes] :
        /\ ext' = <<[tag_name |-> tag_name, tool |-> tool,
                     result |-> extract_preview_data(tool, tag_name)]>>
        /\ pc' = "returned"
        /\ UNCHANGED <<fs_source, fs_old, fs_temp, raw_exif, parsed_exif, idx,
                       valid_preview_tags, runs, conv, request, response>>

NextPreview == CallExtractPreviewData

SpecPreview == InitCommon /\ [][NextPreview]_vars

\* C4: with no tag hint, exiftool is invoked for JpgFromRaw first; PreviewImage
\* is invoked only after the JpgFromRaw call exited non-zero or returned
\* unusable data; and failure is returned only after both tags were attempted.
C4_PriorityOrder ==
    \A i \in 1..Len(ext) :
        LET c     == ext[i]
            calls == c.result.calls
            jpg   == c.tool["JpgFromRaw"]
        IN  c.tag_name = None =>
              /\ Len(calls) >= 1
              /\ calls[1] = "JpgFromRaw"
              /\ \A k \in 2..Len(calls) : calls[k] = "PreviewImage"
              /\ Len(calls) <= 2
              /\ (Len(calls) = 2 => (jpg.exit # 0 \/ ~preview_valid(jpg.stdout)))
              /\ (~c.result.ok => calls = <<"JpgFromRaw", "PreviewImage">>)
              /\ (c.result.ok => c.result.used_tag = Last(calls))

\* Witness: no hint, JpgFromRaw fails, PreviewImage is tried and succeeds.
C4_Witness ==
    /\ Len(ext) = 1
    /\ ext[1].tag_name = None
    /\ ext[1].tool["JpgFromRaw"].exit # 0
    /\ ext[1].result.calls = <<"JpgFromRaw", "PreviewImage">>
    /\ ext[1].result.ok
    /\ ext[1].result.used_tag = "PreviewImage"

\* C11: for each tag extract_preview_data tries, the data exiftool printed is
\* invalid exactly when it is shorter than 100 bytes, and the loop then goes
\* on to the next tag; data of 100 bytes or more is accepted and returned
\* with the tag that produced it.
C11_ValidFrom100Bytes ==
    \A i \in 1..Len(ext) :
        LET c     == ext[i]
            calls == c.result.calls
        IN  \A k \in 1..Len(calls) :
              LET out == c.tool[calls[k]]
              IN  out.exit = 0 =>
                    /\ (out.stdout.len < 100 =>
                          ~(c.result.ok /\ c.result.used_tag = calls[k]))
                    /\ (out.stdout.len >= 100 =>
                          /\ k = Len(calls)
                          /\ c.result.ok
                          /\ c.result.used_tag = calls[k]
                          /\ c.result.data = out.stdout)

(***************************************************************************)
(* SpecConvert: one call of convert_image_to_web_format.                   *)
(***************************************************************************)
\* Bound: the encoded lengths drawn are 1..MaxEncoded kilobytes.
MaxEncoded == 1

ConvBlobs ==
    {Blob(4096, "ok", m, "JPEG") : m \in Modes} \cup
    {Blob(4096, "ok", "RGB", "TIFF"), Blob(4096, "unidentified", "none", "none"),
     Blob(4096, "bomb", "none", "none")}

CallConvert ==
    /\ pc = "idle"
    /\ \E binary_data \in ConvBlobs, temp_file \in BOOLEAN, src_exists \in BOOLEAN :
       \E env \in ConvEnvs({1024 * k : k \in 1..MaxEncoded}) :
         LET r == convert_image_to_web_format(binary_data, temp_file, src_exists, env)
         IN  /\ conv' = <<[binary_data |-> binary_data, temp_file |-> temp_file,
                          src_exists |-> src_exists, env |-> env, result |-> r]>>
             /\ fs_temp' = r.temp_left
             /\ fs_source' = src_exists
    /\ pc' = "returned"
    /\ UNCHANGED <<fs_old, raw_exif, parsed_exif, idx, valid_preview_tags, runs, ext,
                   request, response>>

NextConvert == CallConvert

SpecConvert == InitCommon /\ [][NextConvert]_vars

ConvCalled == Len(conv) = 1

\* The reattachment step of the call failed: exiftool did not copy the tags.
ReattachFailed(c) == c.env.copy # "ok" \/ ~c.src_exists

\* The image of the call decoded and was re-encoded into the temporary file.
Reencoded(c) == c.binary_data.decode = "ok" /\ c.result.saved

\* C1 as stated: after a call with a metadata-source path the temporary file
\* does not exist, on every exit path, and a failed removal never changes the
\* call's result.
C1_TempNeverLeft ==
    ConvCalled /\ conv[1].temp_file =>
        /\ ~fs_temp
        /\ conv[1].result.outcome =
             convert_image_to_web_format(conv[1].binary_data, TRUE,
                 conv[1].src_exists, [conv[1].env EXCEPT !.remove = "ok"]).outcome

\* C1 amended: after a call with a metadata-source path the temporary file
\* does not exist on any exit path (return or raise) unless its removal itself
\* failed; a failed removal leaves the file and never changes the result.
C1_TempRemovedUnlessRemoveFails ==
    ConvCalled /\ conv[1].temp_file =>
        /\ (conv[1].env.remove = "ok" => ~fs_temp)
        /\ (fs_temp => conv[1].result.temp_created)
        /\ conv[1].result.outcome =
             convert_image_to_web_format(conv[1].binary_data, TRUE,
                 conv[1].src_exists, [conv[1].env EXCEPT !.remove = "ok"]).outcome

\* Witness: the call created its temporary file, raised, and the file is gone.
C1_Witness ==
    /\ ConvCalled
    /\ conv[1].temp_file
    /\ conv[1].result.temp_created
    /\ conv[1].result.outcome.kind = "raise"
    /\ ~fs_temp

\* C8: if the image decodes and is re-encoded but the reattachment fails, the
\* call returns success with the re-encoded bytes read back from the temporary
\* file (without the source's metadata).
C8_ReattachFailureIsSuccess ==
    ConvCalled /\ conv[1].temp_file /\ Reencoded(conv[1])
        /\ ReattachFailed(conv[1]) /\ conv[1].env.read = "ok" =>
        /\ conv[1].result.outcome.kind = "return"
        /\ conv[1].result.outcome.ok
        /\ conv[1].result.outcome.data.len = conv[1].env.encoded
        /\ ~conv[1].result.outcome.data.exif

\* Witness: the copy raised something other than CalledProcessError, and the
\* call still returned the bytes.
C8_Witness ==
    /\ ConvCalled
    /\ conv[1].temp_file
    /\ Reencoded(conv[1])
    /\ conv[1].env.copy = "exception"
    /\ conv[1].result.outcome.ok
    /\ conv[1].result.outcome.data.len > 0

\* C9: a decodable image whose mode has an alpha channel or is
\* single-channel or palette-indexed is normalised to three-channel colour:
\* the conversion does not fail because of the mode, and the result is RGB.
C9_ModeNormalised ==
    ConvCalled /\ conv[1].binary_data.decode = "ok"
        /\ conv[1].binary_data.mode \in AlphaModes \cup SingleChannelModes
        /\ conv[1].env.save = "ok" /\ conv[1].env.read = "ok" =>
        /\ conv[1].result.outcome.kind = "return"
        /\ conv[1].result.outcome.ok
        /\ conv[1].result.outcome.data.mode = "RGB"

(***************************************************************************)
(* get_preview_tags and upload_file: the manifest build                    *)
(***************************************************************************)
\* SUPPORTED_WEB_FORMATS, as far as upper-case format names can match it.
SUPPORTED_WEB_FORMATS == {"JPEG", "JPG", "PNG", "GIF", "SVG", "BMP", "ICO"}

\* for tag in preview_tags[:5]
PreviewCap == 5

DictSetKeepFirst(d, e) ==
    IF \E i \in 1..Len(d) : d[i].tag = e.tag THEN d ELSE Append(d, e)

\* valid_preview_tags[tag_name] = {...}: a new key goes to the end of the dict,
\* an existing key keeps its place and gets the new value.
DictSet(d, e) ==
    IF \E i \in 1..Len(d) : d[i].tag = e.tag
    THEN [i \in 1..Len(d) |-> IF d[i].tag = e.tag THEN e ELSE d[i]]
    ELSE Append(d, e)

\* One step of the stable descending sort: e goes after the entries that are
\* at least as large.
InsertDesc(sorted, e) ==
    LET before == Cardinality({j \in 1..Len(sorted) :
                                  sorted[j].size_bytes >= e.size_bytes})
    IN  SubSeq(sorted, 1, before) \o <<e>> \o SubSeq(sorted, before + 1, Len(sorted))

RECURSIVE sorted_tags_ascending(_)
sorted_tags_ascending(d) ==
    IF d = <<>> THEN <<>>
    ELSE LET rest == sorted_tags_ascending(SubSeq(d, 1, Len(d) - 1))
             e    == Last(d)
             before == Cardinality({j \in 1..Len(rest) :
                                       rest[j].size_bytes <= e.size_bytes})
         IN  SubSeq(rest, 1, before) \o <<e>> \o SubSeq(rest, before + 1, Len(rest))

\* sorted(valid_preview_tags.keys(), key=size_bytes, reverse=True): stable.
RECURSIVE sorted_tags(_)
sorted_tags(d) ==
    IF d = <<>> THEN <<>>
    ELSE InsertDesc(sorted_tags(SubSeq(d, 1, Len(d) - 1)), Last(d))

take_all(s, n) == s

\* s[:n]
take(s, n) == SubSeq(s, 1, IF Len(s) < n THEN Len(s) ELSE n)

\* Lines 376-412: the previews of the manifest, from the dict.
build_previews(d) ==
    LET top == take(sorted_tags(d), PreviewCap)
        previews == [i \in 1..Len(top) |->
                       [tag |-> top[i].tag, full_tag |-> top[i].full_key,
                        size_bytes |-> top[i].converted_size,
                        raw_size_bytes |-> top[i].size_bytes,
                        original_format |-> top[i].original_format,
                        converted_format |-> top[i].converted_format,
                        used_tag |-> top[i].used_tag]]
    IN  SelectSeq(previews, LAMBDA p : p.size_bytes > 0)

\* if is_success and converted_data
keep_candidate(is_success, converted_len) == is_success /\ converted_len # 0

\* Lines 252-261
preview_entry(tag_name, full_key, size_bytes, r, used_tag) ==
    [tag |-> tag_name, full_key |-> full_key, size_bytes |-> size_bytes,
     converted_size |-> r.outcome.data.len,
     original_format |-> r.outcome.original_format,
     converted_format |-> IF r.outcome.original_format \notin SUPPORTED_WEB_FORMATS
                          THEN "JPEG" ELSE r.outcome.original_format,
     used_tag |-> used_tag]

(***************************************************************************)
(* The records of the manifest build.  A descriptor is what exiftool       *)
(* prints for an embedded binary: "(Binary data N bytes, use -b option to  *)
(* extract)".  declared is the N of a well-formed descriptor, -1 otherwise.*)
(***************************************************************************)
\* Bound: the number of keys of a record.
MaxKeys == 7

Descr(n) ==
    StrVal(<< <<"(Binary">>, <<"data">>, ToDigits(n), <<"bytes,">>, <<"use">>,
              <<"-b">>, <<"option">>, <<"to">>, <<"extract)">> >>)

Opt(value, declared) == [value |-> value, declared |-> declared]

Sized(n) == Opt(Descr(n), n)

KeyOptions == <<
    [full_key |-> <<"Composite", "JpgFromRaw">>,
     options  |-> {Sized(20971520), Sized(20971521)}],
    [full_key |-> <<"EXIF", "PreviewImage">>,
     options  |-> {Sized(153600)}],
    [full_key |-> <<"MakerNotes", "PreviewImage">>,
     options  |-> {Sized(10240),
                   Opt(StrVal(<< <<"JPEG">>, <<"(Binary">>, <<"data">>,
                                 ToDigits(153600), <<"bytes)">> >>), -1)}],
    [full_key |-> <<"EXIF", "ThumbnailImage">>,
     options  |-> {Sized(10240), Sized(10239)}],
    [full_key |-> <<"IFD0", "OtherImage">>,
     options  |-> {Sized(600000), Opt(StrVal(<< <<"NIKON">>, <<"D750">> >>), -1)}],
    [full_key |-> <<"SubIFD", "PreviewTIFF">>,
     options  |-> {Sized(153600),
                   Opt(StrVal(<< <<"(Binary">>, <<"data)">> >>), -1)}],
    [full_key |-> <<"IFD1", "ThumbnailTIFF">>,
     options  |-> {Sized(300000)}],
    [full_key |-> <<"JpgFromRaw2">>,
     options  |-> {Sized(400000), Opt(NumVal(153600), -1)}] >>

RECURSIVE RecordsUpTo(_)
RecordsUpTo(n) ==
    IF n = 0 THEN {<<>>}
    ELSE {Append(r, [full_key |-> KeyOptions[n].full_key, value |-> o.value,
                     declared |-> o.declared]) :
            r \in RecordsUpTo(n - 1), o \in KeyOptions[n].options}

Records == RecordsUpTo(MaxKeys)

\* What exiftool -b and the codec can do for one candidate of the build.
QuietEnv ==
    [save |-> "ok", partial |-> TRUE, copy |-> "ok", read |-> "ok",
     remove |-> "ok", encoded |-> 2048]

ScanEnvs ==
    [save : {"ok", "ioerror", "other"}, partial : {TRUE},
     copy : {"ok", "nonzero"}, read : {"ok", "empty"}, remove : {"ok"},
     encoded : {2048}]

CandidateInputs ==
    {[tool |-> t, env |-> QuietEnv] :
        t \in {[exit |-> 1, stdout |-> NoData],
               [exit |-> 0, stdout |-> Jpeg(MinPreviewBytes)],
               [exit |-> 0, stdout |-> Blob(4096, "unidentified", "none", "none")],
               [exit |-> 0, stdout |-> Blob(4096, "bomb", "none", "none")]}}
    \cup {[tool |-> [exit |-> 0, stdout |-> Jpeg(4096)], env |-> e] : e \in ScanEnvs}

Run(e, size_bytes, outcome) ==
    [full_key |-> e.full_key, tag |-> tag_name_of(e.full_key),
     size_bytes |-> size_bytes, outcome |-> outcome]

\* The display fields that come with the record of an upload: none, or a file
\* size that exiftool gave as a string of digits.
UploadDisplayParts ==
    {<<>>,
     <<[full_key |-> <<"System", "FileSize">>, value |-> StrVal(<<ToDigits(20971520)>>),
        declared |-> -1]>>}

\* upload_file up to the call of get_preview_tags (lines 346-373), with the
\* record get_raw_exif returned.  An exception of parse_exif_for_display ends
\* in upload_file's except Exception (500).
UploadBegin ==
    /\ pc = "idle"
    /\ \E rec \in Records, disp \in UploadDisplayParts :
        LET parsed == parse_exif_for_display(disp \o rec)
        IN  /\ raw_exif' = disp \o rec
            /\ parsed_exif' = <<parsed>>
            /\ IF parsed.kind = "raise"
               THEN pc' = "done" /\ response' = <<[code |-> 500, previews |-> <<>>]>>
               ELSE pc' = "scan" /\ UNCHANGED response
    /\ request' = <<"upload">>
    /\ UNCHANGED <<fs_source, fs_old, fs_temp, idx, valid_preview_tags, runs,
                   ext, conv>>

\* if not raw_exif: return 500
UploadNoExif ==
    /\ pc = "idle"
    /\ raw_exif' = <<>>
    /\ request' = <<"upload">>
    /\ response' = <<[code |-> 500, previews |-> <<>>]>>
    /\ pc' = "done"
    /\ UNCHANGED <<fs_source, fs_old, fs_temp, parsed_exif, idx,
                   valid_preview_tags, runs, ext, conv>>

\* One turn of the loop of get_preview_tags for a key the filter drops.
ScanSkip ==
    /\ pc = "scan"
    /\ idx < Len(raw_exif)
    /\ ~scan_value(raw_exif[idx + 1].value).pass
    /\ idx' = idx + 1
    /\ UNCHANGED <<pc, fs_source, fs_old, fs_temp, raw_exif, parsed_exif, valid_preview_tags,
                   runs, ext, conv, request, response>>

\* One turn of the loop for a key that passes: extraction, conversion, and
\* the dict entry.  An exception leaving convert_image_to_web_format leaves
\* get_preview_tags too and ends in upload_file's except Exception (500).
ScanCandidate ==
    /\ pc = "scan"
    /\ idx < Len(raw_exif)
    /\ scan_value(raw_exif[idx + 1].value).pass
    /\ \E in \in CandidateInputs :
        LET e         == raw_exif[idx + 1]
            size      == scan_value(e.value).size_bytes
            tag_name  == tag_name_of(e.full_key)
            x         == extract_preview_data([t \in {tag_name} |-> in.tool], tag_name)
            r         == convert_image_to_web_format(x.data, TRUE, fs_source, in.env)
        IN  IF ~x.ok \/ x.data.len = 0
            THEN /\ runs' = Append(runs, Run(e, size, "failed"))
                 /\ idx' = idx + 1
                 /\ UNCHANGED <<pc, valid_preview_tags, response, fs_temp>>
            ELSE IF r.outcome.kind = "raise"
            THEN /\ runs' = Append(runs, Run(e, size, "raised"))
                 /\ response' = <<[code |-> 500, previews |-> <<>>]>>
                 /\ pc' = "done"
                 /\ fs_temp' = (fs_temp \/ r.temp_left)
                 /\ UNCHANGED <<idx, valid_preview_tags>>
            ELSE IF keep_candidate(r.outcome.ok, r.outcome.data.len)
            THEN /\ runs' = Append(runs, Run(e, size, "ok"))
                 /\ valid_preview_tags' =
                       DictSet(valid_preview_tags,
                               preview_entry(tag_name, e.full_key, size, r, x.used_tag))
                 /\ idx' = idx + 1
                 /\ fs_temp' = (fs_temp \/ r.temp_left)
                 /\ UNCHANGED <<pc, response>>
            ELSE /\ runs' = Append(runs, Run(e, size,
                               IF r.outcome.ok THEN "empty" ELSE "failed"))
                 /\ idx' = idx + 1
                 /\ fs_temp' = (fs_temp \/ r.temp_left)
                 /\ UNCHANGED <<pc, valid_preview_tags, response>>
    /\ UNCHANGED <<fs_source, fs_old, raw_exif, parsed_exif, ext, conv, request>>

\* The end of get_preview_tags (the sort) and the rest of upload_file: the
\* previews of the first 5 tags, the zero-size filter, the answer.
UploadFinish ==
    /\ pc = "scan"
    /\ idx = Len(raw_exif)
    /\ response' = <<[code |-> 200, previews |-> build_previews(valid_preview_tags)]>>
    /\ pc' = "done"
    /\ UNCHANGED <<fs_source, fs_old, fs_temp, raw_exif, parsed_exif, idx, valid_preview_tags,
                   runs, ext, conv, request>>

NextUpload == UploadBegin \/ UploadNoExif \/ ScanSkip \/ ScanCandidate \/ UploadFinish

SpecUpload == InitCommon /\ [][NextUpload]_vars

\* The request is over, and it got as far as get_preview_tags.
UploadDone ==
    /\ pc = "done"
    /\ request = <<"upload">>
    /\ Len(parsed_exif) = 1
    /\ parsed_exif[1].kind = "return"

Answered200 == UploadDone /\ response[1].code = 200

Manifest == response[1].previews

\* The declared size of a key lies in the window [10240, 20971520].
InWindow(declared) == 10240 <= declared /\ declared <= 20971520

\* The keys of the record that pass the filter, among the first n, in order.
PassingKeys(n) ==
    LET first == SubSeq(raw_exif, 1, n)
        pass  == SelectSeq(first, LAMBDA k : InWindow(k.declared))
    IN  [i \in 1..Len(pass) |-> pass[i].full_key]

RunKeys == [i \in 1..Len(runs) |-> runs[i].full_key]

\* C2 as stated: a failing extraction or conversion of one candidate never
\* aborts the manifest: the request completes, and every candidate whose
\* extraction and conversion succeeded is in the manifest (unless a later key
\* of the same tag name replaced it, or the manifest is full).
C2_CandidateFailureNeverAborts ==
    UploadDone =>
        /\ response[1].code = 200
        /\ \A i \in 1..Len(runs) :
              runs[i].outcome = "ok" =>
                \/ \E j \in 1..Len(Manifest) : Manifest[j].full_tag = runs[i].full_key
                \/ \E k \in (i + 1)..Len(runs) :
                      runs[k].tag = runs[i].tag /\ runs[k].outcome = "ok"
                \/ Len(Manifest) = PreviewCap

\* C5: a key whose descriptor declares a size below 10240 or above 20971520,
\* or whose descriptor does not parse, is never taken by the scanner: it is
\* not extracted, not in the dict and not in the manifest, whatever its name.
C5_OutOfWindowExcluded ==
    \A i \in 1..Len(raw_exif) :
        ~InWindow(raw_exif[i].declared) =>
            /\ \A j \in 1..Len(runs) : runs[j].full_key # raw_exif[i].full_key
            /\ \A j \in 1..Len(valid_preview_tags) :
                  valid_preview_tags[j].full_key # raw_exif[i].full_key
            /\ \A r \in 1..Len(response) : \A j \in 1..Len(response[r].previews) :
                  response[r].previews[j].full_tag # raw_exif[i].full_key

\* Witness: a finished build of a record with a key below the window, one
\* above it and one that does not parse, and with both edges in the manifest.
C5_Witness ==
    /\ Answered200
    /\ \E i \in 1..Len(raw_exif) : raw_exif[i].declared = 10239
    /\ \E i \in 1..Len(raw_exif) : raw_exif[i].declared = 20971521
    /\ \E i \in 1..Len(raw_exif) : raw_exif[i].declared = -1
    /\ \E j \in 1..Len(Manifest) : Manifest[j].raw_size_bytes = 10240
    /\ Len(Manifest) >= 2

\* C6: the manifest lists the candidates in non-increasing order of declared
\* size, and none of them has a converted payload of zero bytes.
C6_ManifestSortedNonEmpty ==
    Answered200 =>
        /\ \A i \in 1..Len(Manifest) : \A j \in (i + 1)..Len(Manifest) :
              Manifest[i].raw_size_bytes >= Manifest[j].raw_size_bytes
        /\ \A i \in 1..Len(Manifest) : Manifest[i].size_bytes > 0

\* Witness: the dict was filled in another order than the manifest lists, and
\* a candidate with an empty converted payload was left out.
C6_Witness ==
    /\ Answered200
    /\ Len(Manifest) >= 3
    /\ \E i \in 1..Len(valid_preview_tags) : \E j \in (i + 1)..Len(valid_preview_tags) :
          valid_preview_tags[i].size_bytes < valid_preview_tags[j].size_bytes
    /\ \E i \in 1..Len(runs) : runs[i].outcome = "empty"

LastOkRun(tag) ==
    runs[CHOOSE i \in 1..Len(runs) :
            /\ runs[i].tag = tag /\ runs[i].outcome = "ok"
            /\ \A k \in (i + 1)..Len(runs) :
                  ~(runs[k].tag = tag /\ runs[k].outcome = "ok")]

\* The size the record declares for a full key.
DeclaredOf(full_key) ==
    raw_exif[CHOOSE i \in 1..Len(raw_exif) : raw_exif[i].full_key = full_key].declared

\* C12: no two entries of the dict, or of the manifest, have the same local
\* tag name; the entry of a name carries the full key and the declared size
\* of the last key of that name whose extraction and conversion succeeded.
C12_OneEntryPerTagName ==
    /\ \A i, j \in 1..Len(valid_preview_tags) :
          valid_preview_tags[i].tag = valid_preview_tags[j].tag => i = j
    /\ \A i \in 1..Len(valid_preview_tags) :
          LET d == valid_preview_tags[i]
          IN  /\ \E k \in 1..Len(runs) : runs[k].tag = d.tag /\ runs[k].outcome = "ok"
              /\ d.full_key = LastOkRun(d.tag).full_key
              /\ d.tag = Last(d.full_key)
              /\ d.size_bytes = DeclaredOf(d.full_key)
    /\ \A k \in 1..Len(runs) :
          runs[k].outcome = "ok" =>
              \E i \in 1..Len(valid_preview_tags) : valid_preview_tags[i].tag = runs[k].tag
    /\ Answered200 =>
          /\ \A i, j \in 1..Len(Manifest) :
                Manifest[i].tag = Manifest[j].tag => i = j
          /\ \A i \in 1..Len(Manifest) :
                /\ Manifest[i].full_tag = LastOkRun(Manifest[i].tag).full_key
                /\ Manifest[i].raw_size_bytes = DeclaredOf(Manifest[i].full_tag)

\* Witness: two keys named PreviewImage were both extracted and converted, and
\* the manifest has the one entry, with the later key and its size.
C12_Witness ==
    /\ Answered200
    /\ \E a, b \in 1..Len(runs) :
          /\ a < b
          /\ runs[a].tag = "PreviewImage" /\ runs[a].outcome = "ok"
          /\ runs[b].tag = "PreviewImage" /\ runs[b].outcome = "ok"
          /\ runs[a].size_bytes # runs[b].size_bytes
          /\ \E i \in 1..Len(Manifest) :
                /\ Manifest[i].tag = "PreviewImage"
                /\ Manifest[i].full_tag = runs[b].full_key
                /\ Manifest[i].raw_size_bytes = runs[b].size_bytes

(***************************************************************************)
(* extract_preview against the janitor                                     *)
(*                                                                         *)
(* clean_old_files removes the files of UPLOAD_FOLDER whose mtime is more  *)
(* than 600 s old.  Its scheduler job is commented out on line 71, so the  *)
(* sweep runs when something outside the request handlers starts it; it    *)
(* then runs on its own thread, between any two steps of a request.        *)
(***************************************************************************)
\* Time passes: the source file's mtime falls behind the cutoff (now - 600).
SourceAges ==
    /\ fs_source
    /\ ~fs_old
    /\ fs_old' = TRUE
    /\ UNCHANGED <<pc, fs_source, fs_temp, raw_exif, parsed_exif, idx, valid_preview_tags,
                   runs, ext, conv, request, response>>

\* clean_old_files: os.remove of every file older than the cutoff.
clean_old_files ==
    /\ fs_source
    /\ fs_old
    /\ fs_source' = FALSE
    /\ UNCHANGED <<pc, fs_old, fs_temp, raw_exif, parsed_exif, idx, valid_preview_tags,
                   runs, ext, conv, request, response>>

Answer(code) == <<[code |-> code, previews |-> <<>>]>>

\* Lines 435-437: if not os.path.exists(filepath): return 404
ExtractCheck ==
    /\ pc = "idle"
    /\ \E tag \in PreviewTagNames :
          request' = <<[route |-> "extract", tag |-> tag,
                        missing_at |-> IF fs_source THEN {} ELSE {"check"}]>>
    /\ IF fs_source
       THEN pc' = "extract" /\ UNCHANGED response
       ELSE pc' = "done" /\ response' = Answer(404)
    /\ UNCHANGED <<fs_source, fs_old, fs_temp, raw_exif, parsed_exif, idx, valid_preview_tags,
                   runs, ext, conv>>

\* Lines 440-442: exiftool -b on the source file; it exits non-zero when the
\* file is not there.
ExtractData ==
    /\ pc = "extract"
    /\ \E out \in IF fs_source THEN ToolOutcomes \cup
                         {[exit |-> 0, stdout |-> Blob(4096, "ok", "LA", "PNG")],
                          [exit |-> 0, stdout |-> Blob(4096, "bomb", "none", "none")]}
                  ELSE {[exit |-> 1, stdout |-> NoData]} :
        LET tag == request[1].tag
            x   == extract_preview_data([t \in {tag} |-> out], tag)
        IN  /\ ext' = <<[tag_name |-> tag, tool |-> [t \in {tag} |-> out],
                         result |-> x]>>
            /\ IF ~x.ok \/ x.data.len = 0
               THEN pc' = "done" /\ response' = Answer(500)
               ELSE pc' = "convert" /\ UNCHANGED response
    /\ request' = IF fs_source THEN request
                  ELSE <<[request[1] EXCEPT !.missing_at = @ \cup {"extract"}]>>
    /\ UNCHANGED <<fs_source, fs_old, fs_temp, raw_exif, parsed_exif, idx, valid_preview_tags,
                   runs, conv>>

\* Lines 445-473: the conversion, and the answer.
ExtractConvert ==
    /\ pc = "convert"
    /\ \E env \in ScanEnvs \cup {[QuietEnv EXCEPT !.remove = "oserror"]} :
        LET r == convert_image_to_web_format(ext[1].result.data, TRUE, fs_source, env)
        IN  /\ conv' = <<[binary_data |-> ext[1].result.data, temp_file |-> TRUE,
                          src_exists |-> fs_source, env |-> env, result |-> r]>>
            /\ fs_temp' = r.temp_left
            /\ response' = IF r.outcome.kind = "raise" THEN Answer(500)
                           ELSE IF ~r.outcome.ok \/ r.outcome.data.len = 0
                           THEN Answer(500)
                           ELSE Answer(200)
    /\ request' = IF fs_source THEN request
                  ELSE <<[request[1] EXCEPT !.missing_at = @ \cup {"copy"}]>>
    /\ pc' = "done"
    /\ UNCHANGED <<fs_source, fs_old, raw_exif, parsed_exif, idx, valid_preview_tags, runs, ext>>

NextExtract ==
    ExtractCheck \/ ExtractData \/ ExtractConvert \/ SourceAges \/ clean_old_files

SpecExtract == InitCommon /\ [][NextExtract]_vars

\* C3: whenever the source file is gone at the moment extract_preview uses it
\* (the existence check, or the extraction from it), the request ends with
\* the not-found answer (404), not with another error answer.
C3_VanishedSourceIs404 ==
    pc = "done" /\ Len(request) = 1 /\ Len(response) = 1 =>
        (request[1].missing_at \cap {"check", "extract"} # {} =>
            response[1].code = 404)

(***************************************************************************)
(* SpecNormalize: one call of parse_exif_for_display.                      *)
(***************************************************************************)
\* The values a key of the record can have; NoneVal: the key is absent.
DisplayKeyOptions == <<
    [full_key |-> <<"System", "FileSize">>,
     options  |-> {NoneVal, NumVal(0), NumVal(512), NumVal(204800), NumVal(3000000),
                   StrVal(<<ToDigits(12345)>>),
                   StrVal(<< ToDigits(12), <<"MB">> >>)}],
    [full_key |-> <<"File", "FileSize">>,
     options  |-> {NoneVal, NumVal(1000)}],
    [full_key |-> <<"File", "FileTypeExtension">>,
     options  |-> {NoneVal, StrVal(<< <<"nef">> >>), NumVal(3)}],
    [full_key |-> <<"IFD0", "Model">>,
     options  |-> {NoneVal, StrVal(<< <<"NIKON">>, <<"D750">> >>)}],
    [full_key |-> <<"EXIF", "Model">>,
     options  |-> {NoneVal, StrVal(<< <<"D750">> >>)}],
    [full_key |-> <<"Canon", "SensorWidth">>,
     options  |-> {NoneVal, NumVal(23500), StrVal(<< <<"23.5">> >>)}],
    [full_key |-> <<"EXIF", "SensorHeight">>,
     options  |-> {NoneVal, NumVal(0), NumVal(15600), StrVal(<< <<"15.6">> >>)}],
    [full_key |-> <<"EXIF", "ISO">>,
     options  |-> {NoneVal, NumVal(0), NumVal(100)}] >>

RECURSIVE DisplayRecordsUpTo(_)
DisplayRecordsUpTo(n) ==
    IF n = 0 THEN {<<>>}
    ELSE {IF o = NoneVal THEN r
          ELSE Append(r, [full_key |-> DisplayKeyOptions[n].full_key, value |-> o,
                          declared |-> -1]) :
            r \in DisplayRecordsUpTo(n - 1), o \in DisplayKeyOptions[n].options}

DisplayRecords == DisplayRecordsUpTo(Len(DisplayKeyOptions))

CallParse ==
    /\ pc = "idle"
    /\ \E rec \in DisplayRecords :
        /\ raw_exif' = rec
        /\ parsed_exif' = <<parse_exif_for_display(rec)>>
    /\ pc' = "returned"
    /\ UNCHANGED <<fs_source, fs_old, fs_temp, idx, valid_preview_tags, runs,
                   ext, conv, request, response>>

NextNormalize == CallParse

SpecNormalize == InitCommon /\ [][NextNormalize]_vars

\* The values of the record, and the sentinel.
RecordValues == {raw_exif[i].value : i \in 1..Len(raw_exif)} \cup {Unknown}

\* C10: parse_exif_for_display never raises: for every record, also one with
\* the file size or a sensor dimension given as a string, it returns a
\* DisplayMetadata whose fields are values of the record or the sentinel.
C10_NormalizeNeverRaises ==
    Len(parsed_exif) = 1 =>
        /\ parsed_exif[1].kind = "return"
        /\ Len(parsed_exif[1].display) = 1
        /\ \A f \in {"cameraModel", "iso", "shootTime", "lensModel"} :
              parsed_exif[1].display[1][f] \in RecordValues

====
